---------------------------- MODULE Spec2Model ----------------------------
(***************************************************************************)
(* Model of nxc/modules/enum_pass_manager.py (NXCModule).                  *)
(*                                                                         *)
(* Strings are sequences of one-character strings, so that glob matching,  *)
(* lower-casing and substring search are computed character by character.  *)
(* A path is a sequence of names; os.path.join appends one name.           *)
(*                                                                         *)
(* The remote host is an input: which entries every directory listing      *)
(* returns (tree), which listings raise (fails and every absent path), in  *)
(* which order and how often a listing returns its entries (mode), what    *)
(* the IPC$ listing returns (ipc), and whether the session is alive.       *)
(***************************************************************************)
EXTENDS Integers, Sequences, FiniteSets, TLC

VARIABLES
    sessionOk,  \* FALSE: the session is dead, every listPath raises SessionError
    tree,       \* share-relative paths of C$ that some listing returns
    fails,      \* share-relative paths whose listing raises although present
    mode,       \* "asc" | "desc" | "dup": order / repetition of listed entries
    ipc,        \* response of listPath("IPC$", "\\*"): [ok, entries]
    pc,         \* position of the caller
    calls,      \* every connection.conn.listPath call made so far, in order
    log,        \* every context.log record emitted so far, in order
    prod,       \* index of the product the outer loop of line 87 is at
    pat,        \* index of the path the inner loop of line 88 is at
    escaped,    \* exception that left on_login ("none" when it returned)
    pattern,    \* SpecResolve: the split path handed to _recursive_match
    ret         \* SpecResolve: the value _recursive_match returned

vars == <<sessionOk, tree, fails, mode, ipc, pc, calls, log, prod, pat,
          escaped, pattern, ret>>

remoteVars == <<sessionOk, tree, fails, mode, ipc>>

----------------------------------------------------------------------------
(* Bounds *)

\* longest path pattern (segments after the root) of SpecResolve, and the
\* depth of the remote tree it is resolved against
MaxSegs == 2

\* longest IPC$ listing
MaxEndpoints == 2

----------------------------------------------------------------------------
(* Strings *)

RECURSIVE SeqsUpTo(_, _)
\* all sequences over S of length 0..n
SeqsUpTo(S, n) ==
    IF n = 0 THEN {<<>>}
    ELSE LET shorter == SeqsUpTo(S, n - 1)
         IN shorter \cup {Append(s, x) : s \in {t \in shorter : Len(t) = n - 1}, x \in S}

\* str.lower() on one character
LowerChar(c) ==
    CASE c = "A" -> "a"
      [] c = "B" -> "b"
      [] OTHER -> c

\* mutant: the comparison of line 140 without .lower()
LowerNoop(s) == s

\* str.lower()
Lower(s) == [i \in 1..Len(s) |-> LowerChar(s[i])]

\* Python's `needle in haystack` on strings
StrIn(needle, haystack) ==
    \E i \in 1..(Len(haystack) + 1) :
        /\ i + Len(needle) - 1 <= Len(haystack)
        /\ SubSeq(haystack, i, i + Len(needle) - 1) = needle

\* the test of line 140: pipe.lower() in fl.lower()
PipeMatches(pipe, fl) == StrIn(Lower(pipe), Lower(fl))

\* mutant: fnmatch without wildcards (plain string equality)
FnmatchLiteral(name, pat_) == name = pat_

RECURSIVE Fnmatch(_, _)
\* fnmatch.fnmatch(name, pat) on a POSIX host (os.path.normcase is the
\* identity there): "*" any run of characters, "?" exactly one character,
\* any other character itself; the whole name must match.
Fnmatch(name, pat_) ==
    IF pat_ = <<>> THEN name = <<>>
    ELSE IF Head(pat_) = "*"
         THEN \/ Fnmatch(name, Tail(pat_))
              \/ (name # <<>> /\ Fnmatch(Tail(name), pat_))
    ELSE IF Head(pat_) = "?"
         THEN name # <<>> /\ Fnmatch(Tail(name), Tail(pat_))
    ELSE name # <<>> /\ Head(name) = Head(pat_) /\ Fnmatch(Tail(name), Tail(pat_))

----------------------------------------------------------------------------
(* The remote host *)

\* "C:", the base_path of every catalog path
DriveC == <<"C", ":">>

NameA == <<"a">>
NameAB == <<"a", "b">>

\* the names a directory entry can have, in ascending order
NameOrder == <<NameA, NameAB>>
DirNames == {NameOrder[i] : i \in 1..Len(NameOrder)}

\* every share-relative path of 1..d names
PathsUpTo(d) == SeqsUpTo(DirNames, d) \ {<<>>}

Parent(p) == SubSeq(p, 1, Len(p) - 1)

\* the remote trees of depth d: an entry is present only if its parent is
\* present and listable (what lies under an unlistable directory cannot be
\* observed through listPath)
WellFormed(t, f, d) ==
    /\ \A p \in t : Len(p) > 1 => Parent(p) \in t
    /\ \A p \in f : \A n \in DirNames : Append(p, n) \notin t
    /\ \A p \in f : Len(p) < d

Reverse(s) == [i \in 1..Len(s) |-> s[Len(s) + 1 - i]]

\* the entries a successful listing of directory dir returns, each by the
\* name item.get_shortname() gives (line 121); "dup" is a listing in which
\* every name surfaces twice
Entries(dir) ==
    LET asc == SelectSeq(NameOrder, LAMBDA n : Append(dir, n) \in tree)
    IN CASE mode = "asc" -> asc
         [] mode = "desc" -> Reverse(asc)
         [] OTHER -> asc \o asc

\* current_path.replace("C:", "") + "/*": the path of the listing request,
\* as its "/"-separated parts
ListRequest(current_path) ==
    [i \in 1..Len(current_path) |->
        IF current_path[i] = DriveC THEN <<>> ELSE current_path[i]] \o << <<"*">> >>

\* the directory a request names: the parts between the leading "" and "*"
RequestDir(req) == SubSeq(req, 2, Len(req) - 1)

\* connection.conn.listPath(share, req): the entries, or the exception raised
ListPath(share, req) ==
    IF ~sessionOk THEN [ok |-> FALSE, err |-> "SessionError", entries |-> <<>>]
    ELSE IF share = "IPC$"
         THEN IF ipc.ok THEN [ok |-> TRUE, err |-> "none", entries |-> ipc.entries]
              ELSE [ok |-> FALSE, err |-> "TransportError", entries |-> <<>>]
    ELSE LET dir == RequestDir(req)
         IN IF (dir = <<>> \/ dir \in tree) /\ dir \notin fails
            THEN [ok |-> TRUE, err |-> "none", entries |-> Entries(dir)]
            ELSE [ok |-> FALSE, err |-> "AccessError", entries |-> <<>>]

----------------------------------------------------------------------------
(* _recursive_match *)

\* Python values _recursive_match returns: a list of paths, True or False
PyList(paths) == [kind |-> "list", truth |-> paths # <<>>, paths |-> paths]
PyBool(b) == [kind |-> "bool", truth |-> b, paths |-> <<>>]
Truthy(v) == v.truth

\* one listPath call on C$, as recorded in calls
DirCall(current_path) == [share |-> "C$", path |-> current_path]

\* mutant: the list comprehension of lines 118-122 without its fnmatch filter
MatchedDirsNoFilter(current_path, contents, next_path) ==
    [i \in 1..Len(contents) |-> Append(current_path, contents[i])]

\* the list comprehension of lines 118-122
MatchedDirs(current_path, contents, next_path) ==
    LET hits == SelectSeq(contents, LAMBDA n : Fnmatch(n, next_path))
    IN [i \in 1..Len(hits) |-> Append(current_path, hits[i])]

RECURSIVE RecursiveMatch(_, _)
RECURSIVE MatchLoop(_, _)

\* mutant: the loop of lines 126-129 giving up at the first directory that
\* does not match (return False instead of continue)
MatchLoopFirstOnly(matched_dirs, rest) ==
    IF matched_dirs = <<>> THEN [ret |-> PyBool(FALSE), calls |-> <<>>]
    ELSE LET r == RecursiveMatch(Head(matched_dirs), rest)
         IN [ret |-> PyBool(Truthy(r.ret)), calls |-> r.calls]

\* the loop of lines 126-131 over matched_dirs: the value returned and the
\* listPath calls made
MatchLoop(matched_dirs, rest) ==
    IF matched_dirs = <<>> THEN [ret |-> PyBool(FALSE), calls |-> <<>>]
    ELSE LET r == RecursiveMatch(Head(matched_dirs), rest)
         IN IF ~Truthy(r.ret)
            THEN LET l == MatchLoop(Tail(matched_dirs), rest)
                 IN [ret |-> l.ret, calls |-> r.calls \o l.calls]
            ELSE [ret |-> PyBool(TRUE), calls |-> r.calls]

\* mutant: lines 105-107 missing, so the last segment's directory is listed
RecursiveMatchListsLeaf(current_path, remaining_paths) ==
    LET r == ListPath("C$", ListRequest(current_path))
    IN IF ~r.ok
       THEN [ret |-> PyBool(FALSE), calls |-> <<DirCall(current_path)>>]
       ELSE IF remaining_paths = <<>>
            THEN [ret |-> PyList(<<current_path>>), calls |-> <<DirCall(current_path)>>]
       ELSE LET loop == MatchLoop(MatchedDirs(current_path, r.entries, Head(remaining_paths)),
                                  Tail(remaining_paths))
            IN [ret |-> loop.ret, calls |-> <<DirCall(current_path)>> \o loop.calls]

\* _recursive_match(connection, current_path, remaining_paths): the value
\* returned and the listPath calls made, in order
RecursiveMatch(current_path, remaining_paths) ==
    IF remaining_paths = <<>>
    THEN [ret |-> PyList(<<current_path>>), calls |-> <<>>]
    ELSE LET next_path == Head(remaining_paths)
             r == ListPath("C$", ListRequest(current_path))
         IN IF ~r.ok
            THEN [ret |-> PyBool(FALSE), calls |-> <<DirCall(current_path)>>]
            ELSE LET matched_dirs == MatchedDirs(current_path, r.entries, next_path)
                     loop == MatchLoop(matched_dirs, Tail(remaining_paths))
                 IN [ret |-> loop.ret,
                     calls |-> <<DirCall(current_path)>> \o loop.calls]


----------------------------------------------------------------------------
(* The catalog and on_login *)

\* password_managers (lines 35-67), reduced to three products over the
\* model's alphabet and keeping the dict's order.  Each path is already split
\* on "\\" (line 91): "C:" first, then the segments.
\*   LastPass : two literal paths, one upper-case pipe identifier (LASTPASS_)
\*   1Password: a path with a "*" segment first, then a literal path; no pipes
\*   EnPass   : a "?" path and a literal path; two pipe identifiers, so that
\*              the break of line 142 has something to skip
Catalog == <<
    [name  |-> "LastPass",
     paths |-> << <<DriveC, NameA, NameAB>>, <<DriveC, NameAB>> >>,
     pipes |-> << <<"A", "B">> >>],
    [name  |-> "1Password",
     paths |-> << <<DriveC, <<"*">>, NameA>>, <<DriveC, NameA, NameA>> >>,
     pipes |-> <<>>],
    [name  |-> "EnPass",
     paths |-> << <<DriveC, <<"?", "b">>, NameAB>>, <<DriveC, NameA>> >>,
     pipes |-> << <<"b", "a">>, <<"b", "b">> >>] >>

Products == 1..Len(Catalog)

Max(S) == CHOOSE x \in S : \A y \in S : y <= x

\* the deepest directory level a catalog path names
CatalogDepth ==
    Max(UNION {{Len(Catalog[k].paths[j]) - 1 : j \in 1..Len(Catalog[k].paths)} :
                   k \in Products})

\* context.log records
Info(msg) == [level |-> "info", msg |-> msg, name |-> ""]
Fail(err) == [level |-> "fail", msg |-> err, name |-> ""]
Highlight(msg, name) == [level |-> "highlight", msg |-> msg, name |-> name]

RECURSIVE PipesLoop(_, _, _)
\* lines 139-142 for one entry and one product: the records logged
PipesLoop(pipes, fl, name) ==
    IF pipes = <<>> THEN <<>>
    ELSE IF PipeMatches(Head(pipes), fl)
         THEN <<Highlight("RUNNING", name)>>
    ELSE PipesLoop(Tail(pipes), fl, name)

RECURSIVE ProductsLoop(_, _)
\* lines 138-142 for one entry, from product k on
ProductsLoop(k, fl) ==
    IF k > Len(Catalog) THEN <<>>
    ELSE PipesLoop(Catalog[k].pipes, fl, Catalog[k].name) \o ProductsLoop(k + 1, fl)

RECURSIVE EntriesLoop(_)
\* lines 136-142 over the entries listed
EntriesLoop(entries) ==
    IF entries = <<>> THEN <<>>
    ELSE ProductsLoop(1, Head(entries)) \o EntriesLoop(Tail(entries))

\* mutant: an except clause that catches none of the listing errors
IsExceptionNone(err) == FALSE

\* whether `except Exception` (lines 98, 143) catches the error
IsException(err) == err \in {"SessionError", "TransportError", "AccessError"}

\* lines 32-33
OnLogin ==
    /\ pc = "entry"
    /\ log' = Append(log, Info("Analyzing target"))
    /\ pc' = "running"
    /\ UNCHANGED <<remoteVars, calls, prod, pat, escaped, pattern, ret>>

\* line 69: the whole of _detect_running_processes (lines 133-144)
DetectRunningProcesses ==
    /\ pc = "running"
    /\ LET r == ListPath("IPC$", << <<>>, <<"*">> >>)
           begun == Append(log, Info("Detecting running processes"))
       IN /\ calls' = Append(calls, [share |-> "IPC$", path |-> <<>>,
                                     prod |-> 0, pat |-> 0])
          /\ IF r.ok
             THEN /\ log' = begun \o EntriesLoop(r.entries)
                  /\ escaped' = escaped
                  /\ pc' = "paths"
             ELSE IF IsException(r.err)
                  THEN /\ log' = Append(begun, Fail(r.err))
                       /\ escaped' = escaped
                       /\ pc' = "paths"
             ELSE /\ log' = begun
                  /\ escaped' = r.err
                  /\ pc' = "done"
    /\ UNCHANGED <<remoteVars, prod, pat, pattern, ret>>

\* line 70 up to the first iteration: line 85 and the start of the loops
DetectPasswordManagers ==
    /\ pc = "paths"
    /\ log' = Append(log, Info("Checking for known password manager file paths"))
    /\ prod' = 1
    /\ pat' = 1
    /\ pc' = "check"
    /\ UNCHANGED <<remoteVars, calls, escaped, pattern, ret>>

\* mutant: lines 95-97 without the break
PathLoopStepNoBreak(found, k, j) ==
    IF j = Len(Catalog[k].paths)
    THEN [prod |-> k + 1, pat |-> 1, pc |-> IF k = Len(Catalog) THEN "done" ELSE "check"]
    ELSE [prod |-> k, pat |-> j + 1, pc |-> "check"]

\* where the loops of lines 87-88 go after path j of product k: the break of
\* line 97 leaves the inner loop when the path was found, its exhaustion
\* otherwise; the outer loop ends after the last product
PathLoopStep(found, k, j) ==
    IF found \/ j = Len(Catalog[k].paths)
    THEN [prod |-> k + 1, pat |-> 1, pc |-> IF k = Len(Catalog) THEN "done" ELSE "check"]
    ELSE [prod |-> k, pat |-> j + 1, pc |-> "check"]

\* one iteration of the inner loop, lines 88-99, and the move to the next
\* path or the next product
CheckPath ==
    /\ pc = "check"
    /\ LET product == Catalog[prod]
           path_segments == product.paths[pat]
           base_path == Head(path_segments)
           remaining_paths == Tail(path_segments)
           m == RecursiveMatch(<<base_path>>, remaining_paths)
           found == Truthy(m.ret)
           step == PathLoopStep(found, prod, pat)
       IN /\ calls' = calls \o [i \in 1..Len(m.calls) |->
                                   [share |-> m.calls[i].share,
                                    path |-> m.calls[i].path,
                                    prod |-> prod, pat |-> pat]]
          /\ log' = IF found
                    THEN Append(log, Highlight("installed", product.name))
                    ELSE log
          /\ prod' = step.prod
          /\ pat' = step.pat
          /\ pc' = step.pc
    /\ UNCHANGED <<remoteVars, escaped, pattern, ret>>

\* dump_results(results, context) (lines 146-160): the records it logs for
\* results, a sequence of [name, paths, pipes].  No line of the module calls it.
DumpResults(results) ==
    IF results = <<>> THEN <<Highlight("No password managers detected.", "")>>
    ELSE [i \in 1..Len(results) |-> Highlight("detected", results[i].name)]

----------------------------------------------------------------------------
(* Initial states *)

Modes == {"asc", "desc", "dup"}

\* the remote trees of depth d and the listings that fail in them
RemoteTree(d) ==
    /\ tree \in SUBSET PathsUpTo(d)
    /\ fails \in SUBSET ({<<>>} \cup {p \in tree : Len(p) < d})
    /\ WellFormed(tree, fails, d)
    /\ mode \in Modes

\* the names an IPC endpoint can have
EndpointNames == { <<"a", "b">>, <<"B", "a", "b">>, <<"b", "b", "a">>, <<"a">> }

IpcFailed == [ok |-> FALSE, entries |-> <<>>]

IpcResponses ==
    {IpcFailed} \cup {[ok |-> TRUE, entries |-> e] : e \in SeqsUpTo(EndpointNames, MaxEndpoints)}

DeadSession ==
    /\ sessionOk = FALSE
    /\ tree = {}
    /\ fails = {}
    /\ mode = "asc"
    /\ ipc = IpcFailed

Init ==
    /\ \/ sessionOk = TRUE /\ RemoteTree(CatalogDepth) /\ ipc \in IpcResponses
       \/ DeadSession
    /\ pc = "entry"
    /\ calls = <<>>
    /\ log = <<>>
    /\ prod = 0
    /\ pat = 0
    /\ escaped = "none"
    /\ pattern = <<>>
    /\ ret = PyBool(FALSE)

Next ==
    \/ OnLogin
    \/ DetectRunningProcesses
    \/ DetectPasswordManagers
    \/ CheckPath

Spec == Init /\ [][Next]_vars

----------------------------------------------------------------------------
(* _recursive_match on its own, for every pattern *)

\* the segments a pattern is built from: a literal (matches "a" only), "*"
\* (matches every name) and "?b" (matches "ab" only)
SegPatterns == { NameA, <<"*">>, <<"?", "b">> }

IsLiteral(seg) == \A i \in 1..Len(seg) : seg[i] \notin {"*", "?"}

InitResolve ==
    /\ \/ sessionOk = TRUE /\ RemoteTree(MaxSegs)
       \/ sessionOk = FALSE /\ tree = {} /\ fails = {} /\ mode = "asc"
    /\ ipc = IpcFailed
    /\ pattern \in SeqsUpTo(SegPatterns, MaxSegs)
    /\ pc = "resolve"
    /\ calls = <<>>
    /\ log = <<>>
    /\ prod = 0
    /\ pat = 0
    /\ escaped = "none"
    /\ ret = PyBool(FALSE)

\* the call of line 95 for path "C:" + pattern
Resolve ==
    /\ pc = "resolve"
    /\ LET m == RecursiveMatch(<<DriveC>>, pattern)
       IN /\ ret' = m.ret
          /\ calls' = [i \in 1..Len(m.calls) |->
                          [share |-> m.calls[i].share, path |-> m.calls[i].path,
                           prod |-> 0, pat |-> 0]]
    /\ pc' = "resolved"
    /\ UNCHANGED <<remoteVars, log, prod, pat, escaped, pattern>>

NextResolve == Resolve

SpecResolve == InitResolve /\ [][NextResolve]_vars

----------------------------------------------------------------------------
(* What the remote host holds, stated without the resolver *)

\* directory d (share-relative) exists and its listing succeeds
Listable(d) == sessionOk /\ (d = <<>> \/ d \in tree) /\ d \notin fails

Prefix(p, i) == SubSeq(p, 1, i)

\* p is a concrete path for segs: as long as segs, every name glob-matching
\* its segment, every entry present, every ancestor directory listable
FullMatch(p, segs) ==
    /\ Len(p) = Len(segs)
    /\ \A i \in 1..Len(p) : Fnmatch(p[i], segs[i]) /\ Prefix(p, i) \in tree
    /\ \A i \in 0..(Len(p) - 1) : Listable(Prefix(p, i))

ExistsMatch(segs) == \E p \in SeqsUpTo(DirNames, Len(segs)) : FullMatch(p, segs)

\* the literal path segs exists (no glob matching involved)
LiteralExists(segs) ==
    /\ \A i \in 1..Len(segs) : Prefix(segs, i) \in tree
    /\ \A i \in 0..(Len(segs) - 1) : Listable(Prefix(segs, i))

RECURSIVE Frontier(_)
\* the frontier after all of segs, level by level: the matched children of
\* every listable directory of the previous frontier
Frontier(segs) ==
    IF segs = <<>> THEN {<<>>}
    ELSE LET before == Frontier(Prefix(segs, Len(segs) - 1))
             seg == segs[Len(segs)]
         IN {Append(d, n) : d \in {x \in before : Listable(x)},
                            n \in {m \in DirNames : Fnmatch(m, seg)}}
            \cap (tree \cup {<<>>})

\* the share-relative directory of a recorded call on C$
CallDir(c) == Tail(c.path)

Resolved == pc = "resolved"

----------------------------------------------------------------------------
(* Claims about _recursive_match (SpecResolve) *)

\* C1: _recursive_match returns a truthy value iff the level-by-level
\* frontier ends non-empty, iff some concrete path matches every segment
\* with every ancestor listable; for a pattern of literal segments, iff the
\* literal path exists.
C1_ResolveIffFrontier ==
    Resolved =>
        /\ Truthy(ret) <=> Frontier(pattern) # {}
        /\ Truthy(ret) <=> ExistsMatch(pattern)
        /\ (\A i \in 1..Len(pattern) : IsLiteral(pattern[i]))
               => (Truthy(ret) <=> LiteralExists(pattern))

\* a wildcard pattern resolved true although a directory on the way failed
C1_Witness ==
    /\ Resolved
    /\ Truthy(ret)
    /\ Len(pattern) = MaxSegs
    /\ \E i \in 1..Len(pattern) : ~IsLiteral(pattern[i])
    /\ \E i \in 1..Len(calls) : CallDir(calls[i]) \in fails

\* some matched directory above the last level fails to list, while a
\* sibling of it (same parent, also matching the segment) leads to a full match
FailingSiblingOfMatch ==
    \E p \in SeqsUpTo(DirNames, Len(pattern)) :
        /\ FullMatch(p, pattern)
        /\ \E i \in 1..(Len(p) - 1) : \E n \in DirNames \ {p[i]} :
              LET s == Append(Prefix(p, i - 1), n)
              IN s \in tree /\ Fnmatch(n, pattern[i]) /\ ~Listable(s)

\* C2: a listing failure in one matched directory does not hide the match
\* reachable through a sibling, in whichever order the siblings are listed.
C2_SiblingFailureHarmless ==
    (Resolved /\ FailingSiblingOfMatch) => Truthy(ret)

\* the failing sibling was listed first, and the match was still found
C2_Witness ==
    /\ Resolved
    /\ FailingSiblingOfMatch
    /\ Truthy(ret)
    /\ Len(calls) >= 3
    /\ CallDir(calls[2]) \in fails

\* index of the first segment of segs that holds a wildcard (0: none)
FirstWildcard(segs) ==
    IF \A i \in 1..Len(segs) : IsLiteral(segs[i]) THEN 0
    ELSE CHOOSE k \in 1..Len(segs) :
            /\ ~IsLiteral(segs[k])
            /\ \A i \in 1..(k - 1) : IsLiteral(segs[i])

\* the first wildcard segment of pattern matches no child of its parent
\* (the directory the literal segments before it name)
FirstWildcardMatchesNothing ==
    LET k == FirstWildcard(pattern)
        parent == Prefix(pattern, k - 1)
    IN /\ k > 0
       /\ \A n \in DirNames : ~(Append(parent, n) \in tree /\ Fnmatch(n, pattern[k]))

IsPrefixOf(p, q) == Len(p) <= Len(q) /\ Prefix(q, Len(p)) = p

\* C9: when the first wildcard segment matches no child of its parent,
\* _recursive_match returns False and lists only that parent and its
\* ancestors.
C9_UnmatchedWildcardStops ==
    (Resolved /\ FirstWildcardMatchesNothing) =>
        /\ ~Truthy(ret)
        /\ \A i \in 1..Len(calls) :
              IsPrefixOf(CallDir(calls[i]), Prefix(pattern, FirstWildcard(pattern) - 1))

\* the parent was listed, held entries, none matched, and segments remained
C9_Witness ==
    /\ Resolved
    /\ FirstWildcardMatchesNothing
    /\ FirstWildcard(pattern) = 2
    /\ Len(pattern) > 1
    /\ Listable(Prefix(pattern, 1))
    /\ \E n \in DirNames : Append(Prefix(pattern, 1), n) \in tree
    /\ Len(calls) >= 2

----------------------------------------------------------------------------
(* Claims about on_login (Spec) *)

Done == pc = "done"

\* how many records Highlight(msg, name) the log holds
Count(msg, name) ==
    Cardinality({i \in 1..Len(log) : log[i] = Highlight(msg, name)})

ReportedInstalled(k) == Count("installed", Catalog[k].name) > 0
ReportedRunning(k) == Count("RUNNING", Catalog[k].name) > 0

\* path j of product k exists on the remote host
PathExists(k, j) == ExistsMatch(Tail(Catalog[k].paths[j]))

PathsOf(k) == 1..Len(Catalog[k].paths)

\* the IPC$ listing raised
IpcListingFailed == ~sessionOk \/ ~ipc.ok

\* the calls made on share sh
CallsOn(sh) == {i \in 1..Len(calls) : calls[i].share = sh}

\* C3: when the IPC$ listing fails, on_login still checks every product's
\* paths to completion: it reports exactly the products with a path that
\* exists, reports none as running, and logs the failure.
C3_IpcFailureNotFatal ==
    (Done /\ IpcListingFailed) =>
        /\ escaped = "none"
        /\ \A k \in Products : ReportedInstalled(k) <=> \E j \in PathsOf(k) : PathExists(k, j)
        /\ \A k \in Products : ~ReportedRunning(k)
        /\ \E i \in 1..Len(log) : log[i].level = "fail"

\* the IPC$ listing failed on a live session and a product was found installed
C3_Witness ==
    /\ Done
    /\ sessionOk
    /\ ~ipc.ok
    /\ \E k \in Products : ReportedInstalled(k)
    /\ \E k \in Products : ~ReportedInstalled(k)

\* the same letter, whatever the case
SameLetter(c, d) == c = d \/ {c, d} = {"a", "A"} \/ {c, d} = {"b", "B"}

\* id occurs in name, case ignored
ContainsIgnoringCase(id, name) ==
    \E off \in 0..(Len(name) - Len(id)) :
        \A i \in 1..Len(id) : SameLetter(id[i], name[off + i])

\* the endpoints this run's IPC$ listing returned
ListedEndpoints ==
    IF IpcListingFailed THEN {} ELSE {ipc.entries[i] : i \in 1..Len(ipc.entries)}

Scanned == pc \in {"paths", "check", "done"}

\* C4: a product is reported running iff one of its pipe identifiers is a
\* case-insensitive substring of the name of a listed endpoint; a product
\* without identifiers is never reported running.
C4_RunningIffPipeListed ==
    Scanned =>
        \A k \in Products :
            ReportedRunning(k) <=>
                \E i \in 1..Len(Catalog[k].pipes) : \E e \in ListedEndpoints :
                    ContainsIgnoringCase(Catalog[k].pipes[i], e)

\* LastPass is reported through an endpoint whose case differs from its
\* identifier, another product with identifiers is not reported
C4_Witness ==
    /\ Scanned
    /\ ReportedRunning(1)
    /\ ~ReportedRunning(3)
    /\ ListedEndpoints # {}

\* C5: one run reports a product running at most once and installed at most
\* once.
C5_AtMostOneResultEach ==
    \A k \in Products :
        /\ Count("RUNNING", Catalog[k].name) <= 1
        /\ Count("installed", Catalog[k].name) <= 1

\* C6: the paths of a product are tried in catalog order, a listing is made
\* for a path only if no earlier path of the product exists, and once the
\* run is over every path with no existing earlier path has been tried.
C6_StopsAtFirstMatch ==
    /\ \A i \in CallsOn("C$") : \A j \in 1..(calls[i].pat - 1) :
          ~PathExists(calls[i].prod, j)
    /\ \A i, j \in CallsOn("C$") :
          i < j => \/ calls[i].prod < calls[j].prod
                   \/ calls[i].prod = calls[j].prod /\ calls[i].pat <= calls[j].pat
    /\ Done => \A k \in Products : \A j \in PathsOf(k) :
          (\A h \in 1..(j - 1) : ~PathExists(k, h))
              => \E i \in CallsOn("C$") : calls[i].prod = k /\ calls[i].pat = j

\* one product matched on its first path although its second exists too and
\* was never listed; another one matched on its second path only
C6_Witness ==
    /\ Done
    /\ \E k \in Products :
          /\ PathExists(k, 1) /\ PathExists(k, 2)
          /\ ~\E i \in CallsOn("C$") : calls[i].prod = k /\ calls[i].pat = 2
    /\ \E k \in Products :
          /\ ~PathExists(k, 1) /\ PathExists(k, 2)
          /\ ReportedInstalled(k)

NothingDetected == \A k \in Products : ~ReportedInstalled(k) /\ ~ReportedRunning(k)

NoneDetectedNotices == Count("No password managers detected.", "")

\* C7: a run that detects nothing logs exactly one "none detected" notice,
\* and a run that detects something logs none.
C7_NoneDetectedNotice ==
    Done => IF NothingDetected THEN NoneDetectedNotices = 1
            ELSE NoneDetectedNotices = 0

\* C8: on a dead session on_login does not return normally: the session
\* error reaches its caller.
C8_SessionErrorSurfaced ==
    (Done /\ ~sessionOk) => escaped # "none"

\* C10: the IPC$ namespace is listed exactly once per run, and while one
\* path is resolved no directory is listed twice.
C10_NoListingRepeated ==
    /\ Cardinality(CallsOn("IPC$")) <= 1
    /\ Scanned => Cardinality(CallsOn("IPC$")) = 1
    /\ \A i, j \in CallsOn("C$") :
          (calls[i].prod = calls[j].prod /\ calls[i].pat = calls[j].pat
             /\ calls[i].path = calls[j].path) => i = j

============================================================================
